---- MODULE Spec2Model ----
(***************************************************************************)
(* Model of src/streamlit_ui.py ("Kompare Krafts"): the row filter         *)
(* evaluator (apply_filters), the synthetic key builder (process_key), the *)
(* first-wins deduplication and the cell-level differ (compare_df), and    *)
(* the control flow of the script that runs them.                          *)
(*                                                                         *)
(* Text is a sequence of one-character strings, so that lower-casing,      *)
(* trimming, joining and substring search are computed, not assumed.       *)
(* A cell value is a tagged value: Null (pandas NaN), Num(n) or Text(s).   *)
(***************************************************************************)
EXTENDS Integers, Sequences, FiniteSets, TLC

VARIABLES
    pc,                      \* position of the script
    df_main, df_secondary,   \* the loaded (then filtered) frames
    filters_main, filters_secondary,
    columns_main, columns_secondary,
    column_mapping,
    key_columns,
    case_sensitive_compare,
    df_main_cmp, df_secondary_cmp,   \* frames prepared for comparison
    diff_report,
    summary,
    messages                 \* what st.error / st.warning / an uncaught exception showed

vars == << pc, df_main, df_secondary, filters_main, filters_secondary,
           columns_main, columns_secondary, column_mapping, key_columns,
           case_sensitive_compare, df_main_cmp, df_secondary_cmp,
           diff_report, summary, messages >>

(***************************************************************************)
(* Text                                                                    *)
(***************************************************************************)

\* Code points of the characters the model uses (their ASCII order).
Ord(c) ==
    CASE c = " " -> 32
      [] c = "(" -> 40
      [] c = "." -> 46
      [] c = "0" -> 48
      [] c = "1" -> 49
      [] c = "2" -> 50
      [] c = "A" -> 65
      [] c = "B" -> 66
      [] c = "N" -> 78
      [] c = "a" -> 97
      [] c = "b" -> 98
      [] c = "c" -> 99
      [] c = "n" -> 110
      [] c = "|" -> 124

\* str.lower() on one character.
LowerChar(c) ==
    CASE c = "A" -> "a"
      [] c = "B" -> "b"
      [] c = "N" -> "n"
      [] OTHER -> c

\* str.lower()
Lower(s) == [i \in 1..Len(s) |-> LowerChar(s[i])]

\* lexicographic order of two texts, as Python orders str
RECURSIVE StrLess(_, _)
StrLess(s, t) ==
    IF t = << >> THEN FALSE
    ELSE IF s = << >> THEN TRUE
    ELSE IF Ord(Head(s)) < Ord(Head(t)) THEN TRUE
    ELSE IF Ord(Head(s)) > Ord(Head(t)) THEN FALSE
    ELSE StrLess(Tail(s), Tail(t))

\* str.strip(): leading and trailing blanks removed
RECURSIVE LStrip(_)
LStrip(s) == IF s # << >> /\ Head(s) = " " THEN LStrip(Tail(s)) ELSE s

RECURSIVE RStrip(_)
RStrip(s) ==
    IF s # << >> /\ s[Len(s)] = " " THEN RStrip(SubSeq(s, 1, Len(s) - 1)) ELSE s

Strip(s) == RStrip(LStrip(s))

\* sub in s, as a literal substring
Contains(s, sub) ==
    \E i \in 1..(Len(s) - Len(sub) + 1) : SubSeq(s, i, i + Len(sub) - 1) = sub

\* '|'.join(parts)
RECURSIVE Join(_)
Join(parts) ==
    IF parts = << >> THEN << >>
    ELSE IF Len(parts) = 1 THEN parts[1]
    ELSE parts[1] \o << "|" >> \o Join(Tail(parts))

(***************************************************************************)
(* Cell values                                                             *)
(***************************************************************************)

Null == [t |-> "null"]
Num(n) == [t |-> "num", n |-> n]
Text(s) == [t |-> "str", s |-> s]

\* pd.isna(v)
IsNa(v) == v.t = "null"

Digit(n) == CASE n = 0 -> "0" [] n = 1 -> "1" [] n = 2 -> "2"

\* str(v) / astype(str): NaN prints as "nan", a text as itself
Str(v) ==
    CASE v.t = "null" -> << "n", "a", "n" >>
      [] v.t = "num" -> << Digit(v.n) >>
      [] v.t = "str" -> v.s

(***************************************************************************)
(* Frames. A frame is [columns |-> sequence of column names,               *)
(* rows |-> sequence of rows], a row a function from column name to cell   *)
(* value. An indexed frame (after set_index) also carries                  *)
(* index |-> sequence of keys, one per row.                                *)
(***************************************************************************)

Range(seq) == {seq[i] : i \in DOMAIN seq}

\* the rows of seq at the positions in keep, from position i on, in their
\* original order
RECURSIVE SelectIdx(_, _, _)
SelectIdx(seq, keep, i) ==
    IF i > Len(seq) THEN << >>
    ELSE (IF i \in keep THEN << seq[i] >> ELSE << >>) \o SelectIdx(seq, keep, i + 1)

(***************************************************************************)
(* Key Builder: process_key                                                *)
(***************************************************************************)

\* key_parts of one row: astype(str), lower-cased unless case_sensitive
KeyParts(row, keyCols, case_sensitive) ==
    [i \in 1..Len(keyCols) |->
        IF case_sensitive THEN Str(row[keyCols[i]]) ELSE Lower(Str(row[keyCols[i]]))]

\* process_key(df, key_columns, case_sensitive): the Series of synthetic keys
process_key(df, keyCols, case_sensitive) ==
    [i \in 1..Len(df.rows) |-> Join(KeyParts(df.rows[i], keyCols, case_sensitive))]

\* df['__key__'] = process_key(df, key_columns, case_sensitive)
WithKey(df, keyCols, case_sensitive) ==
    LET keys == process_key(df, keyCols, case_sensitive) IN
    [columns |-> df.columns \o << "__key__" >>,
     rows |-> [i \in 1..Len(df.rows) |->
                 [c \in Range(df.columns) \cup {"__key__"} |->
                     IF c = "__key__" THEN Text(keys[i]) ELSE df.rows[i][c]]]]

(***************************************************************************)
(* Dataset Aligner: drop_duplicates(subset="__key__", keep="first") and    *)
(* set_index('__key__')                                                    *)
(***************************************************************************)

\* drop_duplicates left out: every row is kept
drop_duplicates_none(df) == df

\* keep="last" instead of keep="first"
drop_duplicates_last(df) ==
    LET last == {i \in DOMAIN df.rows :
                    \A j \in (i + 1)..Len(df.rows) :
                        df.rows[j]["__key__"] # df.rows[i]["__key__"]}
    IN  [columns |-> df.columns, rows |-> SelectIdx(df.rows, last, 1)]

drop_duplicates(df) ==
    LET first == {i \in DOMAIN df.rows :
                     \A j \in 1..(i - 1) : df.rows[j]["__key__"] # df.rows[i]["__key__"]}
    IN  [columns |-> df.columns, rows |-> SelectIdx(df.rows, first, 1)]

set_index(df) ==
    LET cols == SelectSeq(df.columns, LAMBDA c : c # "__key__") IN
    [columns |-> cols,
     index |-> [i \in 1..Len(df.rows) |-> df.rows[i]["__key__"].s],
     rows |-> [i \in 1..Len(df.rows) |-> [c \in Range(cols) |-> df.rows[i][c]]]]

(***************************************************************************)
(* Cell-Level Differ: compare_df                                           *)
(***************************************************************************)

Count(seq, x) == Cardinality({i \in DOMAIN seq : seq[i] = x})

Max(a, b) == IF a >= b THEN a ELSE b

RECURSIVE Repeat(_, _)
Repeat(x, n) == IF n = 0 THEN << >> ELSE << x >> \o Repeat(x, n - 1)

\* the texts of S in ascending order
RECURSIVE SortedSeq(_)
SortedSeq(S) ==
    IF S = {} THEN << >>
    ELSE LET m == CHOOSE x \in S : \A y \in S : x = y \/ StrLess(x, y)
         IN  << m >> \o SortedSeq(S \ {m})

\* Index.union: sorted; a key repeated in an index is kept as often as in the
\* index that repeats it most (unique indexes give the sorted set union)
RECURSIVE Expand(_, _, _)
Expand(sorted, i1, i2) ==
    IF sorted = << >> THEN << >>
    ELSE Repeat(Head(sorted), Max(Count(i1, Head(sorted)), Count(i2, Head(sorted))))
         \o Expand(Tail(sorted), i1, i2)

IndexUnion(i1, i2) == Expand(SortedSeq(Range(i1) \cup Range(i2)), i1, i2)

\* df.loc[key], and .iloc[0] when several rows carry the key
Loc(df, key) == df.rows[CHOOSE i \in DOMAIN df.index :
                          /\ df.index[i] = key
                          /\ \A j \in 1..(i - 1) : df.index[j] # key]

\* the case_sensitive flag ignored: the texts are compared as they are
CellChanged_exact(val_old, val_new, case_sensitive) ==
    IF IsNa(val_old) /\ IsNa(val_new) THEN FALSE
    ELSE IF IsNa(val_old) # IsNa(val_new) \/ Str(val_old) # Str(val_new) THEN
        (IF ~IsNa(val_old) THEN Str(val_old) ELSE << >>)
            # (IF ~IsNa(val_new) THEN Str(val_new) ELSE << >>)
    ELSE FALSE

\* lines 153-164: does this column count as changed
CellChanged(val_old, val_new, case_sensitive) ==
    IF IsNa(val_old) /\ IsNa(val_new) THEN FALSE
    ELSE IF IsNa(val_old) # IsNa(val_new) \/ Str(val_old) # Str(val_new) THEN
        LET val_old_str == IF ~IsNa(val_old) THEN Str(val_old) ELSE << >>
            val_new_str == IF ~IsNa(val_new) THEN Str(val_new) ELSE << >>
        IN  IF case_sensitive THEN val_old_str # val_new_str
            ELSE Lower(val_old_str) # Lower(val_new_str)
    ELSE FALSE

\* `changed` tested before the two presence tests
Classify_changed_first(inMain, inSecondary, changed) ==
    IF changed THEN "Modified"
    ELSE IF ~inSecondary THEN "Added"
    ELSE IF ~inMain THEN "Removed"
    ELSE "Unchanged"

\* lines 166-173
Classify(inMain, inSecondary, changed) ==
    IF ~inSecondary THEN "Added"
    ELSE IF ~inMain THEN "Removed"
    ELSE IF changed THEN "Modified"
    ELSE "Unchanged"

\* one pass of the loop over keys (lines 128-175); `changed` is the loop's local,
\* kept beside the cells it was computed from
DiffRow(df1, df2, columns, key, case_sensitive) ==
    LET in1 == key \in Range(df1.index)
        in2 == key \in Range(df2.index)
        row1 == IF in1 THEN Loc(df1, key) ELSE [c \in columns |-> Null]
        row2 == IF in2 THEN Loc(df2, key) ELSE [c \in columns |-> Null]
        old == [c \in columns |-> IF c \in DOMAIN row2 THEN row2[c] ELSE Null]
        new == [c \in columns |-> IF c \in DOMAIN row1 THEN row1[c] ELSE Null]
        changed == \E c \in columns : CellChanged(old[c], new[c], case_sensitive)
    IN  [Key |-> key, old |-> old, new |-> new, changed |-> changed,
         ChangeType |-> Classify(in1, in2, changed)]

\* compare_df(df1, df2, case_sensitive): the report, one DiffRow per entry of keys
compare_df(df1, df2, case_sensitive) ==
    LET keys == IndexUnion(df1.index, df2.index)
        columns == Range(df1.columns) \cup Range(df2.columns)
    IN  [i \in 1..Len(keys) |-> DiffRow(df1, df2, columns, keys[i], case_sensitive)]

\* lines 324-325: value_counts() and len()
Summarize(report) ==
    [counts |-> [k \in {report[i].ChangeType : i \in DOMAIN report} |->
                    Cardinality({i \in DOMAIN report : report[i].ChangeType = k})],
     total |-> Len(report)]

(***************************************************************************)
(* Row Filter Evaluator: apply_filters                                     *)
(*                                                                         *)
(* A loaded frame also carries dtypes |-> [column -> "int64" | "float64"   *)
(* | "object"], which pandas fixes at load and boolean indexing keeps.     *)
(* A filter is [col, op, val, case, regex]; val is text. Every filter the  *)
(* model draws has regex = FALSE (the checkbox's default), so `contains`   *)
(* is a literal substring test.                                            *)
(***************************************************************************)

\* the dtype pandas gives a column holding these values
Dtype(rows, c) ==
    IF rows = << >> THEN "object"
    ELSE IF \A i \in DOMAIN rows : rows[i][c].t = "num" THEN "int64"
    ELSE IF \A i \in DOMAIN rows : rows[i][c].t \in {"num", "null"} THEN "float64"
    ELSE "object"

Load(columns, rows) ==
    [columns |-> columns, rows |-> rows,
     dtypes |-> [c \in Range(columns) |-> Dtype(rows, c)]]

\* astype(str) of a cell of a column of dtype dt: a float prints with ".0"
StrCell(v, dt) ==
    IF v.t = "num" /\ dt = "float64" THEN Str(v) \o << ".", "0" >> ELSE Str(v)

IsDigit(c) == c \in {"0", "1", "2"}

DigitValue(c) == CASE c = "0" -> 0 [] c = "1" -> 1 [] c = "2" -> 2

\* lines 75-78: pd.to_numeric(val) when the text is a number, else val.strip()
Cast(val) ==
    LET s == Strip(val) IN
    IF Len(s) = 1 /\ IsDigit(s[1]) THEN Num(DigitValue(s[1])) ELSE Text(s)

Relational == {">", ">=", "<", "<="}

Less(a, b) == IF a.t = "num" THEN a.n < b.n ELSE StrLess(a.s, b.s)

\* x op y for two values of the same kind
Rel(op, x, y) ==
    CASE op = ">"  -> Less(y, x)
      [] op = ">=" -> ~Less(x, y)
      [] op = "<"  -> Less(x, y)
      [] op = "<=" -> ~Less(y, x)

\* does evaluating the filter on this frame raise (lines 80-100 reach `except`)
Raises(df, f) ==
    LET v == Cast(f.val) IN
    \/ f.col \notin Range(df.columns)
    \/ /\ f.op \in Relational
       /\ \/ v.t = "str" /\ df.dtypes[f.col] \in {"int64", "float64"}
          \/ \E i \in DOMAIN df.rows :
                /\ ~IsNa(df.rows[i][f.col])
                /\ df.rows[i][f.col].t # v.t

\* the boolean mask entry of one row (the filter does not raise)
Satisfies(df, row, f) ==
    LET v == Cast(f.val)
        x == row[f.col]
        cell == StrCell(x, df.dtypes[f.col])
    IN  CASE f.op = "==" -> x = v
          [] f.op = "!=" -> x # v
          [] f.op \in Relational -> ~IsNa(x) /\ Rel(f.op, x, v)
          [] f.op = "contains" ->
                IF f.case THEN Contains(cell, Str(v))
                ELSE Contains(Lower(cell), Lower(Str(v)))
          [] f.op = "not contains" ->
                IF f.case THEN ~Contains(cell, Str(v))
                ELSE ~Contains(Lower(cell), Lower(Str(v)))

\* df = df[mask]
FilterOne(df, f) ==
    LET mask == {i \in DOMAIN df.rows : Satisfies(df, df.rows[i], f)} IN
    [df EXCEPT !.rows = SelectIdx(df.rows, mask, 1)]

\* st.stop() left out: the loop goes on to the next filter after st.error
RECURSIVE apply_filters_no_stop(_, _)
apply_filters_no_stop(df, filters) ==
    IF filters = << >> THEN [stopped |-> FALSE, df |-> df]
    ELSE IF Raises(df, Head(filters))
         THEN apply_filters_no_stop(df, Tail(filters))
         ELSE apply_filters_no_stop(FilterOne(df, Head(filters)), Tail(filters))

\* `return df` indented into the loop: only the first filter is applied
apply_filters_first_only(df, filters) ==
    IF filters = << >> THEN [stopped |-> FALSE, df |-> df]
    ELSE IF Raises(df, Head(filters))
         THEN [stopped |-> TRUE, error |-> Head(filters).col]
         ELSE [stopped |-> FALSE, df |-> FilterOne(df, Head(filters))]

\* apply_filters(df, filters): the frame returned, or the st.error / st.stop()
\* of the first filter that raises
RECURSIVE apply_filters(_, _)
apply_filters(df, filters) ==
    IF filters = << >> THEN [stopped |-> FALSE, df |-> df]
    ELSE IF Raises(df, Head(filters))
         THEN [stopped |-> TRUE, error |-> Head(filters).col]
         ELSE apply_filters(FilterOne(df, Head(filters)), Tail(filters))

(***************************************************************************)
(* The script, lines 271-390, one action per step.                         *)
(***************************************************************************)

SeqsUpTo(S, n) == UNION {[1..m -> S] : m \in 0..n}

NoFrame == [columns |-> << >>, rows |-> << >>]

Filter(col, op, val, case) == [col |-> col, op |-> op, val |-> val, case |-> case, regex |-> FALSE]

Error(col) == [kind |-> "error", col |-> col]

\* line 390
ColumnsWarning == [kind |-> "warning", text |-> "select and map an equal number of columns"]

\* the uncaught KeyError of line 309
KeyErrorShown == [kind |-> "exception", text |-> "KeyError"]

Unchanged_selection ==
    UNCHANGED << columns_main, columns_secondary, column_mapping, key_columns,
                 case_sensitive_compare >>

Unchanged_outputs ==
    UNCHANGED << df_main_cmp, df_secondary_cmp, diff_report, summary >>

\* line 279: df_main = apply_filters(df_main, filters_main)
ApplyFiltersMain ==
    /\ pc = "filters_built"
    /\ LET r == apply_filters(df_main, filters_main) IN
       IF r.stopped
       THEN /\ messages' = Append(messages, Error(r.error))
            /\ pc' = "stopped"
            /\ UNCHANGED df_main
       ELSE /\ df_main' = r.df
            /\ pc' = "filtered_main"
            /\ UNCHANGED messages
    /\ UNCHANGED << df_secondary, filters_main, filters_secondary >>
    /\ Unchanged_selection
    /\ Unchanged_outputs

\* line 280: df_secondary = apply_filters(df_secondary, filters_secondary)
ApplyFiltersSecondary ==
    /\ pc = "filtered_main"
    /\ LET r == apply_filters(df_secondary, filters_secondary) IN
       IF r.stopped
       THEN /\ messages' = Append(messages, Error(r.error))
            /\ pc' = "stopped"
            /\ UNCHANGED df_secondary
       ELSE /\ df_secondary' = r.df
            /\ pc' = "filtered"
            /\ UNCHANGED messages
    /\ UNCHANGED << df_main, filters_main, filters_secondary >>
    /\ Unchanged_selection
    /\ Unchanged_outputs

\* the selections a multiselect over these options can return
RECURSIVE Selections(_)
Selections(S) ==
    {<< >>} \cup UNION {{<< c >> \o rest : rest \in Selections(S \ {c})} : c \in S}

\* lines 287-288: the two column multiselects
SelectColumns ==
    /\ pc = "filtered"
    /\ columns_main' \in Selections(Range(df_main.columns))
    /\ columns_secondary' \in Selections(Range(df_secondary.columns))
    /\ pc' = "columns_selected"
    /\ UNCHANGED << df_main, df_secondary, filters_main, filters_secondary,
                    column_mapping, key_columns, case_sensitive_compare, messages >>
    /\ Unchanged_outputs

\* line 290
ColumnsMatch ==
    /\ columns_main # << >>
    /\ columns_secondary # << >>
    /\ Len(columns_main) = Len(columns_secondary)

\* lines 389-390: the else branch of line 290
WarnColumns ==
    /\ pc = "columns_selected"
    /\ ~ColumnsMatch
    /\ messages' = Append(messages, ColumnsWarning)
    /\ pc' = "end"
    /\ UNCHANGED << df_main, df_secondary, filters_main, filters_secondary >>
    /\ Unchanged_selection
    /\ Unchanged_outputs

\* lines 293-299: one selectbox per selected secondary column, any selected
\* main column as its value
MapColumns ==
    /\ pc = "columns_selected"
    /\ ColumnsMatch
    /\ column_mapping' \in [Range(columns_secondary) -> Range(columns_main)]
    /\ pc' = "mapped"
    /\ UNCHANGED << df_main, df_secondary, filters_main, filters_secondary,
                    columns_main, columns_secondary, key_columns,
                    case_sensitive_compare, messages >>
    /\ Unchanged_outputs

\* lines 303-305: the key multiselect and the case-sensitivity checkbox
SelectKeyColumns ==
    /\ pc = "mapped"
    /\ key_columns' \in Selections(Range(columns_main))
    /\ case_sensitive_compare' \in BOOLEAN
    /\ pc' = "keys_selected"
    /\ UNCHANGED << df_main, df_secondary, filters_main, filters_secondary,
                    columns_main, columns_secondary, column_mapping, messages >>
    /\ Unchanged_outputs

\* line 307 false: the script ends and shows nothing
NoKeyColumns ==
    /\ pc = "keys_selected"
    /\ key_columns = << >>
    /\ pc' = "end"
    /\ UNCHANGED << df_main, df_secondary, filters_main, filters_secondary, messages >>
    /\ Unchanged_selection
    /\ Unchanged_outputs

\* df[cols]
Project(df, cols) ==
    [columns |-> cols,
     rows |-> [i \in 1..Len(df.rows) |-> [c \in Range(cols) |-> df.rows[i][c]]]]

\* .rename(columns=column_mapping): the column names after renaming
Renamed(cols, mapping) == [i \in 1..Len(cols) |-> mapping[cols[i]]]

\* the trailing [columns_main] left out: the renamed columns are kept as they
\* are and no KeyError is raised
PrepareSecondary_no_select(df, colsSecondary, mapping, colsMain) ==
    LET renamed == Renamed(colsSecondary, mapping)
        Source(c) == CHOOSE c2 \in Range(colsSecondary) : mapping[c2] = c
    IN  [raised |-> FALSE,
         df |-> [columns |-> renamed,
                 rows |-> [i \in 1..Len(df.rows) |->
                             [c \in Range(renamed) |-> df.rows[i][Source(c)]]]]]

\* line 309: df_secondary[columns_secondary].rename(columns=column_mapping)[columns_main]
\* raises KeyError when a selected main column is no renamed column
PrepareSecondary(df, colsSecondary, mapping, colsMain) ==
    LET renamed == Renamed(colsSecondary, mapping)
        Source(c) == CHOOSE c2 \in Range(colsSecondary) : mapping[c2] = c
    IN  IF \E c \in Range(colsMain) : c \notin Range(renamed)
        THEN [raised |-> TRUE]
        ELSE [raised |-> FALSE,
              df |-> [columns |-> colsMain,
                      rows |-> [i \in 1..Len(df.rows) |->
                                  [c \in Range(colsMain) |-> df.rows[i][Source(c)]]]]]

\* lines 308-309
Prepare ==
    /\ pc = "keys_selected"
    /\ key_columns # << >>
    /\ LET r == PrepareSecondary(df_secondary, columns_secondary, column_mapping,
                                 columns_main) IN
       IF r.raised
       THEN /\ messages' = Append(messages, KeyErrorShown)
            /\ pc' = "crashed"
            /\ UNCHANGED df_secondary_cmp
       ELSE /\ df_secondary_cmp' = r.df
            /\ pc' = "prepared"
            /\ UNCHANGED messages
    /\ df_main_cmp' = Project(df_main, columns_main)
    /\ UNCHANGED << df_main, df_secondary, filters_main, filters_secondary,
                    diff_report, summary >>
    /\ Unchanged_selection

\* lines 311-312: df['__key__'] = process_key(...) on both frames
ProcessKeys ==
    /\ pc = "prepared"
    /\ df_main_cmp' = WithKey(df_main_cmp, key_columns, case_sensitive_compare)
    /\ df_secondary_cmp' = WithKey(df_secondary_cmp, key_columns, case_sensitive_compare)
    /\ pc' = "keyed"
    /\ UNCHANGED << df_main, df_secondary, filters_main, filters_secondary,
                    columns_main, columns_secondary, column_mapping, key_columns,
                    case_sensitive_compare, diff_report, summary, messages >>

\* lines 314-318: drop_duplicates(keep="first") then set_index on both frames
DropDuplicates ==
    /\ pc = "keyed"
    /\ df_main_cmp' = set_index(drop_duplicates(df_main_cmp))
    /\ df_secondary_cmp' = set_index(drop_duplicates(df_secondary_cmp))
    /\ pc' = "indexed"
    /\ UNCHANGED << df_main, df_secondary, filters_main, filters_secondary,
                    columns_main, columns_secondary, column_mapping, key_columns,
                    case_sensitive_compare, diff_report, summary, messages >>

\* line 321: diff_report = compare_df(df_main_cmp, df_secondary_cmp, ...)
Compare ==
    /\ pc = "indexed"
    /\ diff_report' = compare_df(df_main_cmp, df_secondary_cmp, case_sensitive_compare)
    /\ pc' = "compared"
    /\ UNCHANGED << df_main, df_secondary, filters_main, filters_secondary,
                    columns_main, columns_secondary, column_mapping, key_columns,
                    case_sensitive_compare, df_main_cmp, df_secondary_cmp,
                    summary, messages >>

\* lines 324-350: the summary and the report are shown
ShowReport ==
    /\ pc = "compared"
    /\ summary' = Summarize(diff_report)
    /\ pc' = "done"
    /\ UNCHANGED << df_main, df_secondary, filters_main, filters_secondary,
                    columns_main, columns_secondary, column_mapping, key_columns,
                    case_sensitive_compare, df_main_cmp, df_secondary_cmp,
                    diff_report, messages >>

(***************************************************************************)
(* Spec: one run of the script from the loaded frames to its end.          *)
(* Main has the columns k, v and secondary K, V; the cells are text or     *)
(* missing.                                                                *)
(***************************************************************************)

Row2(c1, x, c2, y) == [c \in {c1, c2} |-> IF c = c1 THEN x ELSE y]

ScriptMainFrames ==
    {Load(<< "k", "v" >>, << Row2("k", Text(<< "a" >>), "v", Text(<< "a" >>)),
                             Row2("k", Text(<< "A" >>), "v", Null) >>),
     Load(<< "k", "v" >>, << Row2("k", Text(<< "b" >>), "v", Text(<< "A" >>)) >>)}

ScriptSecondaryFrames ==
    {Load(<< "K", "V" >>, << Row2("K", Text(<< "a" >>), "V", Text(<< "A" >>)),
                             Row2("K", Text(<< "a" >>), "V", Text(<< "b" >>)) >>),
     Load(<< "K", "V" >>, << Row2("K", Text(<< "b" >>), "V", Null) >>)}

\* filter lists as build_filter_ui returns them: every column is one of the frame
ScriptMainFilters ==
    {<< >>,
     << Filter("v", "==", << "a" >>, FALSE) >>,
     << Filter("k", "!=", << "A" >>, FALSE), Filter("v", ">", << "1" >>, FALSE) >>}

ScriptSecondaryFilters ==
    {<< >>,
     << Filter("V", "contains", << "a" >>, FALSE) >>,
     << Filter("K", "==", << "a" >>, FALSE), Filter("V", "<=", << "1" >>, FALSE) >>}

Init ==
    /\ pc = "loaded"
    /\ df_main \in ScriptMainFrames
    /\ df_secondary \in ScriptSecondaryFrames
    /\ filters_main = << >>
    /\ filters_secondary = << >>
    /\ columns_main = << >>
    /\ columns_secondary = << >>
    /\ column_mapping = << >>
    /\ key_columns = << >>
    /\ case_sensitive_compare = TRUE
    /\ df_main_cmp = NoFrame
    /\ df_secondary_cmp = NoFrame
    /\ diff_report = << >>
    /\ summary = [counts |-> << >>, total |-> 0]
    /\ messages = << >>

\* lines 276-277: the filters of both files
BuildFilters ==
    /\ pc = "loaded"
    /\ filters_main' \in ScriptMainFilters
    /\ filters_secondary' \in ScriptSecondaryFilters
    /\ pc' = "filters_built"
    /\ UNCHANGED << df_main, df_secondary, messages >>
    /\ Unchanged_selection
    /\ Unchanged_outputs

\* the script from line 279 on
RunNext ==
    \/ ApplyFiltersMain
    \/ ApplyFiltersSecondary
    \/ SelectColumns
    \/ WarnColumns
    \/ MapColumns
    \/ SelectKeyColumns
    \/ NoKeyColumns
    \/ Prepare
    \/ ProcessKeys
    \/ DropDuplicates
    \/ Compare
    \/ ShowReport

Next == BuildFilters \/ RunNext

Spec == Init /\ [][Next]_vars

(***************************************************************************)
(* SpecCall: the script from line 279 on, with the filter lists            *)
(* apply_filters accepts as a function: those of Spec and lists naming a   *)
(* column the frame lacks, which build_filter_ui never returns.            *)
(***************************************************************************)

CallMainFilters ==
    ScriptMainFilters \cup
    {<< Filter("zz", "==", << "a" >>, FALSE) >>,
     << Filter("v", "!=", << "a" >>, FALSE), Filter("zz", "contains", << "a" >>, FALSE) >>}

CallSecondaryFilters ==
    ScriptSecondaryFilters \cup
    {<< Filter("zz", "!=", << "a" >>, FALSE) >>,
     << Filter("V", "!=", << "b" >>, FALSE), Filter("k", "<", << "a" >>, FALSE) >>}

InitCall ==
    /\ pc = "filters_built"
    /\ df_main \in ScriptMainFrames
    /\ df_secondary \in ScriptSecondaryFrames
    /\ filters_main \in CallMainFilters
    /\ filters_secondary \in CallSecondaryFilters
    /\ columns_main = << >>
    /\ columns_secondary = << >>
    /\ column_mapping = << >>
    /\ key_columns = << >>
    /\ case_sensitive_compare = TRUE
    /\ df_main_cmp = NoFrame
    /\ df_secondary_cmp = NoFrame
    /\ diff_report = << >>
    /\ summary = [counts |-> << >>, total |-> 0]
    /\ messages = << >>

SpecCall == InitCall /\ [][RunNext]_vars

(***************************************************************************)
(* SpecCompare: key building, deduplication and comparison of two frames   *)
(* over the columns k, v, keyed by k or by k and v, from the state line    *)
(* 309 leaves (the identity column mapping).                               *)
(***************************************************************************)

MaxRows == 2

CmpColumns == << "k", "v" >>

CmpKeyValues == {Text(<< "a" >>), Text(<< "A" >>)}

CmpCellValues == {Null, Text(<< >>), Text(<< "a" >>), Text(<< "A" >>)}

\* every value under key a; key A carries the value a only
CmpRows == {r \in {Row2("k", k, "v", v) : k \in CmpKeyValues, v \in CmpCellValues} :
               r["k"] = Text(<< "a" >>) \/ r["v"] = Text(<< "a" >>)}

\* the key specifications: k alone, or k and v joined
CmpKeySpecs == {<< "k" >>, << "k", "v" >>}

InitCompare ==
    /\ pc = "prepared"
    /\ \E rows \in SeqsUpTo(CmpRows, MaxRows) : df_main = Load(CmpColumns, rows)
    /\ \E rows \in SeqsUpTo(CmpRows, MaxRows) : df_secondary = Load(CmpColumns, rows)
    /\ key_columns \in CmpKeySpecs
    /\ case_sensitive_compare \in BOOLEAN
    /\ columns_main = CmpColumns
    /\ columns_secondary = CmpColumns
    /\ column_mapping = [c \in Range(CmpColumns) |-> c]
    /\ df_main_cmp = Project(df_main, columns_main)
    /\ df_secondary_cmp =
          PrepareSecondary(df_secondary, columns_secondary, column_mapping, columns_main).df
    /\ filters_main = << >>
    /\ filters_secondary = << >>
    /\ diff_report = << >>
    /\ summary = [counts |-> << >>, total |-> 0]
    /\ messages = << >>

NextCompare == ProcessKeys \/ DropDuplicates \/ Compare \/ ShowReport

SpecCompare == InitCompare /\ [][NextCompare]_vars

(***************************************************************************)
(* SpecKey: the keys process_key builds from two key columns k1, k2 whose  *)
(* cells may hold the delimiter or the text "nan", and what the pipeline   *)
(* makes of rows whose keys coincide.                                      *)
(***************************************************************************)

MaxKeyRows == 2

KeyColumns == << "k1", "k2" >>

KeyCellValues ==
    {Null, Text(<< "n", "a", "n" >>), Text(<< "a" >>), Text(<< "A" >>),
     Text(<< "a", "|", "b" >>), Text(<< "b", "|", "c" >>), Text(<< "b" >>),
     Text(<< "c" >>)}

KeyRows == {Row2("k1", x, "k2", y) : x \in KeyCellValues, y \in KeyCellValues}

InitKey ==
    /\ pc = "prepared"
    /\ \E rows \in SeqsUpTo(KeyRows, MaxKeyRows) : df_main = Load(KeyColumns, rows)
    /\ df_secondary = Load(KeyColumns, << >>)
    /\ key_columns = KeyColumns
    /\ case_sensitive_compare \in BOOLEAN
    /\ columns_main = KeyColumns
    /\ columns_secondary = KeyColumns
    /\ column_mapping = [c \in Range(KeyColumns) |-> c]
    /\ df_main_cmp = Project(df_main, columns_main)
    /\ df_secondary_cmp =
          PrepareSecondary(df_secondary, columns_secondary, column_mapping, columns_main).df
    /\ filters_main = << >>
    /\ filters_secondary = << >>
    /\ diff_report = << >>
    /\ summary = [counts |-> << >>, total |-> 0]
    /\ messages = << >>

SpecKey == InitKey /\ [][NextCompare]_vars

(***************************************************************************)
(* SpecFilter: apply_filters on the main frame, over the columns amount    *)
(* (integers) and name (text or missing).                                  *)
(***************************************************************************)

MaxFilterRows == 2

MaxFilters == 2

FilterColumns == << "amount", "name" >>

FilterRows ==
    {Row2("amount", x, "name", y) :
        x \in {Num(1), Num(2)},
        y \in {Text(<< "A" >>), Text(<< "b" >>), Null}}

FilterChoices ==
    {Filter("amount", ">", << "1" >>, FALSE),
     Filter("name", "!=", << " ", "A" >>, FALSE),
     Filter("name", "==", << "b" >>, FALSE),
     Filter("name", "contains", << "a" >>, FALSE),
     Filter("name", ">=", << "1" >>, FALSE),
     Filter("amount", "<", << "b" >>, FALSE),
     Filter("zz", "==", << "a" >>, FALSE)}

InitFilter ==
    /\ pc = "filters_built"
    /\ \E rows \in SeqsUpTo(FilterRows, MaxFilterRows) : df_main = Load(FilterColumns, rows)
    /\ filters_main \in SeqsUpTo(FilterChoices, MaxFilters)
    /\ df_secondary = Load(FilterColumns, << >>)
    /\ filters_secondary = << >>
    /\ columns_main = << >>
    /\ columns_secondary = << >>
    /\ column_mapping = << >>
    /\ key_columns = << >>
    /\ case_sensitive_compare = TRUE
    /\ df_main_cmp = NoFrame
    /\ df_secondary_cmp = NoFrame
    /\ diff_report = << >>
    /\ summary = [counts |-> << >>, total |-> 0]
    /\ messages = << >>

NextFilter == ApplyFiltersMain \/ ApplyFiltersSecondary

SpecFilter == InitFilter /\ [][NextFilter]_vars

(***************************************************************************)
(* Properties of the comparison (SpecCompare)                              *)
(***************************************************************************)

Compared == pc \in {"compared", "done"}

\* the two datasets as they enter key building, and their synthetic keys
MainData == Project(df_main, columns_main)

SecondaryData ==
    PrepareSecondary(df_secondary, columns_secondary, column_mapping, columns_main).df

MainKeySeq == process_key(MainData, key_columns, case_sensitive_compare)

SecondaryKeySeq == process_key(SecondaryData, key_columns, case_sensitive_compare)

MainKeys == Range(MainKeySeq)

SecondaryKeys == Range(SecondaryKeySeq)

UnionKeys == MainKeys \cup SecondaryKeys

\* the first row, in original order, whose synthetic key is k
FirstRow(data, keySeq, k) ==
    data.rows[CHOOSE i \in DOMAIN keySeq :
                 keySeq[i] = k /\ \A j \in 1..(i - 1) : keySeq[j] # k]

ReportRows == {diff_report[i] : i \in DOMAIN diff_report}

\* C1: the report holds exactly one row per synthetic key of the main or the
\* secondary dataset: every such key is the Key of exactly one row, no row has
\* a Key of neither dataset, and the number of rows is the size of the key union.
C1_OneRowPerKey ==
    Compared =>
        LET keys == UnionKeys IN
        /\ \A k \in keys :
              Cardinality({i \in DOMAIN diff_report : diff_report[i].Key = k}) = 1
        /\ \A i \in DOMAIN diff_report : diff_report[i].Key \in keys
        /\ Len(diff_report) = Cardinality(keys)

C1_Witness ==
    /\ pc = "done"
    /\ Len(df_main.rows) = 2
    /\ Len(df_secondary.rows) = 2
    /\ Cardinality(MainKeys) = 1
    /\ Cardinality(SecondaryKeys) = 2
    /\ Len(diff_report) = 2

ChangeTypes == {"Added", "Removed", "Modified", "Unchanged"}

\* C2: every report row carries exactly one ChangeType: Added iff its key is
\* absent from the secondary dataset; Removed iff present in the secondary and
\* absent from the main; Modified iff present in both and some column was
\* detected as changed; Unchanged iff present in both and none was.
C2_Classification ==
    Compared =>
        LET mainKeys == MainKeys
            secondaryKeys == SecondaryKeys
        IN
        \A r \in ReportRows :
            LET inMain == r.Key \in mainKeys
                inSecondary == r.Key \in secondaryKeys
                detected == \E c \in DOMAIN r.old :
                               CellChanged(r.old[c], r.new[c], case_sensitive_compare)
            IN  /\ r.ChangeType \in ChangeTypes
                /\ r.ChangeType = "Added" <=> ~inSecondary
                /\ r.ChangeType = "Removed" <=> (inSecondary /\ ~inMain)
                /\ r.ChangeType = "Modified" <=> (inMain /\ inSecondary /\ detected)
                /\ r.ChangeType = "Unchanged" <=> (inMain /\ inSecondary /\ ~detected)

C2_Witness ==
    /\ pc = "done"
    /\ {r.ChangeType : r \in ReportRows} = {"Added", "Modified"}

\* C3 (as claimed): for a key present in both datasets, a column in which
\* exactly one of the old and the new value is missing makes the row Modified.
C3_OneNullIsAChange ==
    Compared =>
        \A r \in ReportRows :
            (/\ r.Key \in MainKeys
             /\ r.Key \in SecondaryKeys
             /\ \E c \in DOMAIN r.old : IsNa(r.old[c]) # IsNa(r.new[c]))
            => r.ChangeType = "Modified"

BothNull(x, y) == IsNa(x) /\ IsNa(y)

SameFolded(x, y) == ~IsNa(x) /\ ~IsNa(y) /\ Lower(Str(x)) = Lower(Str(y))

CaseOnly(x, y) == SameFolded(x, y) /\ Str(x) # Str(y)

\* C4: for a key present in both datasets, with case sensitivity off a row
\* whose columns are all both-missing or equal after lower-casing is Unchanged;
\* with case sensitivity on a row with a column differing in letter case only
\* is Modified.
C4_CaseFold ==
    Compared =>
        LET both == MainKeys \cap SecondaryKeys IN
        \A r \in ReportRows :
            r.Key \in both =>
                /\ (/\ ~case_sensitive_compare
                    /\ \A c \in DOMAIN r.old :
                          BothNull(r.old[c], r.new[c]) \/ SameFolded(r.old[c], r.new[c]))
                   => r.ChangeType = "Unchanged"
                /\ (/\ case_sensitive_compare
                    /\ \E c \in DOMAIN r.old : CaseOnly(r.old[c], r.new[c]))
                   => r.ChangeType = "Modified"

C4_Witness ==
    /\ pc = "done"
    /\ ~case_sensitive_compare
    /\ \E r \in ReportRows :
          /\ r.ChangeType = "Unchanged"
          /\ CaseOnly(r.old["v"], r.new["v"])
          /\ CaseOnly(r.old["k"], r.new["k"])

\* C5: of the rows of one dataset with the same synthetic key only the first in
\* original order reaches the report: the _new cells are those of the first main
\* row with the key, the _old cells those of the first secondary row, change
\* detection reads these cells, and nothing is reported as an error.
C5_FirstWins ==
    Compared =>
        /\ messages = << >>
        /\ LET mainSeq == MainKeySeq
               secondarySeq == SecondaryKeySeq
           IN
           \A r \in ReportRows :
              LET new == IF r.Key \in Range(mainSeq)
                         THEN FirstRow(MainData, mainSeq, r.Key)
                         ELSE [c \in Range(columns_main) |-> Null]
                  old == IF r.Key \in Range(secondarySeq)
                         THEN FirstRow(SecondaryData, secondarySeq, r.Key)
                         ELSE [c \in Range(columns_main) |-> Null]
              IN  /\ r.new = new
                  /\ r.old = old
                  /\ r.changed = \E c \in Range(columns_main) :
                                    CellChanged(old[c], new[c], case_sensitive_compare)

C5_Witness ==
    /\ pc = "done"
    /\ Len(df_main.rows) = 2
    /\ Len(df_secondary.rows) = 2
    /\ MainKeySeq[1] = MainKeySeq[2]
    /\ SecondaryKeySeq[1] = SecondaryKeySeq[2]
    /\ MainData.rows[1] # MainData.rows[2]
    /\ SecondaryData.rows[1] # SecondaryData.rows[2]
    /\ \E r \in ReportRows : r.ChangeType = "Unchanged"

(***************************************************************************)
(* Properties of the script run (Spec, SpecCall)                           *)
(***************************************************************************)

\* a row passes a filter: evaluating the filter on it raises nothing and gives True
Mismatch(row, f) ==
    /\ f.op \in Relational
    /\ ~IsNa(row[f.col])
    /\ row[f.col].t # Cast(f.val).t

Passes(df, row, f) ==
    /\ f.col \in Range(df.columns)
    /\ ~Mismatch(row, f)
    /\ Satisfies(df, row, f)

\* the frame narrowed to the rows that pass the first n filters
Narrowed(df, filters, n) ==
    LET keep == {i \in DOMAIN df.rows : \A j \in 1..n : Passes(df, df.rows[i], filters[j])} IN
    [df EXCEPT !.rows = SelectIdx(df.rows, keep, 1)]

\* filter i is the first whose column is absent or whose comparison raises
FirstRaising(df, filters, i) ==
    /\ i \in DOMAIN filters
    /\ Raises(Narrowed(df, filters, i - 1), filters[i])
    /\ \A j \in 1..(i - 1) : ~Raises(Narrowed(df, filters, j - 1), filters[j])

NothingCompared ==
    /\ df_main_cmp = NoFrame
    /\ df_secondary_cmp = NoFrame
    /\ diff_report = << >>
    /\ summary = [counts |-> << >>, total |-> 0]

\* what the claim requires of a step taken when filter i of the list raises
StopsNaming(filters, i) ==
    /\ pc' = "stopped"
    /\ messages' = Append(messages, Error(filters[i].col))
    /\ UNCHANGED << df_main, df_secondary >>
    /\ NothingCompared'

\* C7: if a filter of either list references an absent column or its comparison
\* raises, apply_filters reports an error naming that filter's column and the
\* run stops: no partially filtered frame is returned, the remaining filters are
\* not applied, and no key building, alignment, comparison or report follows.
C7_FilterErrorStops ==
    [][/\ \A i \in DOMAIN filters_main :
             (pc = "filters_built" /\ FirstRaising(df_main, filters_main, i))
             => StopsNaming(filters_main, i)
       /\ \A i \in DOMAIN filters_secondary :
             (pc = "filtered_main" /\ FirstRaising(df_secondary, filters_secondary, i))
             => StopsNaming(filters_secondary, i)
       /\ pc = "stopped" => UNCHANGED vars]_vars

\* the second filter of the main list raised after the first had removed a row
C7_Witness ==
    /\ pc = "stopped"
    /\ Len(filters_main) = 2
    /\ messages = << Error(filters_main[2].col) >>
    /\ Len(Narrowed(df_main, filters_main, 1).rows) < Len(df_main.rows)
    /\ Len(Narrowed(df_main, filters_main, 1).rows) > 0

\* C8 (as claimed): when the column selections are empty or of unequal counts,
\* or no key column is selected, nothing is compared and the condition is shown
\* to the user as an error or a warning.
C8_ShapeErrorSurfaced ==
    pc = "end" =>
        /\ NothingCompared
        /\ \E i \in DOMAIN messages : messages[i].kind \in {"error", "warning"}

ReachedComparison == pc \in {"prepared", "keyed", "indexed", "compared", "done"}

DataColumns(df) == SelectSeq(df.columns, LAMBDA c : c # "__key__")

\* C9: in every run that reaches the comparison the column mapping is
\* one-to-one, the renamed secondary frame has exactly the selected main columns,
\* each once, and the report's _old/_new pairs are over the selected main columns.
C9_MappingOneToOne ==
    ReachedComparison =>
        /\ \A c1, c2 \in Range(columns_secondary) :
              column_mapping[c1] = column_mapping[c2] => c1 = c2
        /\ Range(DataColumns(df_secondary_cmp)) = Range(columns_main)
        /\ Len(DataColumns(df_secondary_cmp)) = Cardinality(Range(columns_main))
        /\ Compared => \A r \in ReportRows :
              DOMAIN r.old = Range(columns_main) /\ DOMAIN r.new = Range(columns_main)

\* a run that mapped K to v and V to k and went through to the report
C9_Witness ==
    /\ pc = "done"
    /\ columns_main = << "k", "v" >>
    /\ columns_secondary = << "K", "V" >>
    /\ column_mapping["K"] = "v"
    /\ column_mapping["V"] = "k"
    /\ Len(diff_report) > 0

(***************************************************************************)
(* Properties of the key builder (SpecKey)                                 *)
(***************************************************************************)

\* two cells hold the same value, after lower-casing when case is ignored
SameCell(x, y, case_sensitive) ==
    IF x.t # "str" \/ y.t # "str" THEN x = y
    ELSE IF case_sensitive THEN x.s = y.s
    ELSE Lower(x.s) = Lower(y.s)

\* C10 (as claimed): two rows get equal synthetic keys only if they hold the
\* same value in every key column, position by position (after lower-casing
\* when case sensitivity is off).
C10_KeyInjective ==
    pc = "keyed" =>
        \A i, j \in DOMAIN df_main_cmp.rows :
            df_main_cmp.rows[i]["__key__"] = df_main_cmp.rows[j]["__key__"]
            => \A n \in DOMAIN key_columns :
                  SameCell(df_main_cmp.rows[i][key_columns[n]],
                           df_main_cmp.rows[j][key_columns[n]],
                           case_sensitive_compare)

(***************************************************************************)
(* Properties of the row filter evaluator (SpecFilter)                     *)
(***************************************************************************)

\* a is b with some elements removed, the rest in b's order
RECURSIVE IsSubSeq(_, _)
IsSubSeq(a, b) ==
    IF a = << >> THEN TRUE
    ELSE IF b = << >> THEN FALSE
    ELSE IF Head(a) = Head(b) THEN IsSubSeq(Tail(a), Tail(b))
    ELSE IsSubSeq(a, Tail(b))

Reordered(filters, p) == [i \in DOMAIN filters |-> filters[p[i]]]

NoFilterRaises(df, filters) == \A i \in DOMAIN filters : ~FirstRaising(df, filters, i)

====
